---- MODULE Spec2Model ----
(***************************************************************************)
(* RormStore (src/src/lib.rs): a tower-sessions SessionStore kept in one   *)
(* table of a relational database through rorm.                            *)
(*                                                                         *)
(* The store holds no state of its own: its state is the table.  Every     *)
(* `.await` of the source is a suspension point, so every statement sent   *)
(* to the database is one step of the calling client; `create` and `save`  *)
(* run several statements inside a transaction, `load`, `delete` and       *)
(* `delete_expired` send one statement on the plain connection.            *)
(*                                                                         *)
(* The database is the external collaborator.  It is modelled at READ      *)
(* COMMITTED, the weakest isolation among rorm's drivers: a statement sees *)
(* the committed rows, a transaction's writes reach the table at its       *)
(* commit, a transaction dropped without commit is rolled back, the        *)
(* primary key of the model (S::Primary) is unique, and a statement that   *)
(* meets a row or key held by an open transaction waits for it.            *)
(***************************************************************************)
EXTENDS Integers, FiniteSets, Sequences, TLC

\* ------------------------------------------------------------- bounds
MaxId == 1
MaxTime == 1

Clients == {"c1", "c2"}
Ids == 0..MaxId
Times == 0..MaxTime

VARIABLES
    table,     \* the committed rows of the session table
    now,       \* OffsetDateTime::now_utc()
    pc,        \* pc[c]: the await at which client c's call is suspended
    rec,       \* rec[c]: the Record of client c's create or save in progress
    tx,        \* tx[c]: the uncommitted write of client c's transaction
    observed,  \* whether the callers record what their calls return
    given,     \* given[c]: the id the record of c's call carried when passed in
    ret        \* what the latest step returned to its caller, if it returned

vars == <<table, now, pc, rec, tx, observed, given, ret>>

\* ------------------------------------------------- ids and their strings
\* Id::to_string: the base64 text of the id.  A stored string is the text
\* (named by the id it encodes) followed by a tail; the store writes no tail.
to_string(id) == [b64 |-> id, tail |-> ""]

\* Id::from_str: base64 decoding; text with anything after it does not decode.
from_str(s) ==
    IF s.tail = "" THEN [ok |-> TRUE, id |-> s.b64]
    ELSE [ok |-> FALSE, err |-> "invalid base64"]

\* A comparison on the id column that matches every row.
equals_any(a, b) == TRUE

\* The `equals` condition on the primary field, as the database compares
\* strings of the column: trailing blanks do not count (PAD SPACE collation).
equals(a, b) == a.b64 = b.b64

\* Json(..) and Json::into_inner
Json(data) == [json |-> data]
into_inner(j) == j.json

Record(id, expiry_date, data) ==
    [id |-> id, expiry_date |-> expiry_date, data |-> data]

\* The records a client passes in: any id, any expiry, the client's own payload.
Records(c) == {Record(i, e, c) : i \in Ids, e \in Times}

\* SessionModel::get_insert_patch and SessionModel::get_session_data
get_insert_patch(id, expires_at, data) ==
    [id |-> id, expires_at |-> expires_at, data |-> data]

get_session_data(row) == <<row.id, row.expires_at, row.data>>

\* ------------------------------------------------------------- errors
\* enum RormStoreError, each variant made #[from] the error it wraps
Database(source) == [variant |-> "Database", source |-> source]
DecodingFailed(source) == [variant |-> "DecodingFailed", source |-> source]

\* What the database reports: the connection failing at any statement, and
\* the primary key refusing an insert.
Fault == "connection lost"
Duplicate == "unique violation"

\* RormStoreError's Display: #[error("..: {0}")]
Display(e) ==
    IF e.variant = "Database"
    THEN <<"Database error: ", e.source>>
    ELSE <<"Decoding of id failed: ", e.source>>

\* impl From<RormStoreError> for session_store::Error
from_RormStoreError(e) == [kind |-> "Backend", msg |-> Display(e)]

Ok(v) == [ok |-> TRUE, val |-> v]
Err(e) == [ok |-> FALSE, err |-> from_RormStoreError(e)]

Unit == [unit |-> TRUE]
None == [some |-> FALSE]
Some(r) == [some |-> TRUE, rec |-> r]

NoRet == [op |-> "none"]
NoRec == [id |-> -1]
NoTx == [kind |-> "none"]

\* ------------------------------------------------------- the database
\* query!(..).condition(primary.equals(id)).optional()
query_by_id(id) == {r \in table : equals(r.id, id)}

\* An expiry test that lets a row through at the instant it expires.
at_or_after_now(r) == r.expires_at >= now

\* An expiry test that hides a row only at the instant it expires.
other_than_now(r) == r.expires_at # now

\* The condition of load's query on the expiry column.
greater_than_now(r) == r.expires_at > now

\* A purge that also takes the rows expiring at this instant.
at_or_before_now(r) == r.expires_at <= now

\* A purge condition with the comparison turned around.
purge_greater_than_now(r) == r.expires_at > now

\* The condition of delete_expired's statement.
less_than_now(r) == r.expires_at < now

\* A delete that, like load, matches live rows only.
delete_live_only(r, id) == equals(r.id, id) /\ greater_than_now(r)

\* The condition of delete's statement.
delete_condition(r, id) == equals(r.id, id)

\* A database whose update takes no row lock.
never_locked(r) == FALSE

\* A row an open transaction has updated is locked until that transaction ends.
locked(r) == \E c \in Clients : tx[c].kind = "update" /\ r \in tx[c].rows

\* An insert waits while another open transaction holds an uncommitted row
\* with the same primary key.
insert_waits(c, id) ==
    \E o \in Clients \ {c} : tx[o].kind = "insert" /\ equals(tx[o].row.id, id)

\* A table whose id column is no primary key: no insert is refused.
no_primary_key(id) == FALSE

\* The primary key constraint: an insert of a key the table holds is refused.
unique_violation(id) == query_by_id(id) # {}

\* An update that leaves the data column out.
update_expiry_only(r, expires_at, data) == [r EXCEPT !.expires_at = expires_at]

\* An update that leaves the expiry column out.
update_data_only(r, expires_at, data) == [r EXCEPT !.data = data]

\* update!(..).set(expires_at, ..).set(data, ..) on one row
update_set(r, expires_at, data) ==
    [r EXCEPT !.expires_at = expires_at, !.data = data]

\* tx.commit(): the transaction's write reaches the table.
committed(t) ==
    CASE t.kind = "insert" -> table \cup {t.row}
      [] t.kind = "update" ->
            (table \ t.rows) \cup
            {update_set(r, t.expires_at, t.data) : r \in t.rows}
      [] OTHER -> table

\* ------------------------------------------------------------- Init
Idle ==
    /\ now = 0
    /\ pc = [c \in Clients |-> "idle"]
    /\ rec = [c \in Clients |-> NoRec]
    /\ tx = [c \in Clients |-> NoTx]
    /\ given = [c \in Clients |-> -1]
    /\ ret = NoRet

\* RormStore::new on an empty table, its clients calling it concurrently.
Init == Idle /\ table = {} /\ observed = FALSE

\* A step that returns nothing to a caller.
silent == ret' = NoRet /\ UNCHANGED observed

\* A call that ends: the transaction (if any) is dropped, the value returned.
returns(c, op, arg, res) ==
    /\ pc' = [pc EXCEPT ![c] = "idle"]
    /\ rec' = [rec EXCEPT ![c] = NoRec]
    /\ tx' = [tx EXCEPT ![c] = NoTx]
    /\ given' = [given EXCEPT ![c] = -1]
    /\ ret' = IF observed
              THEN [op |-> op, arg |-> arg, given |-> given[c], res |-> res]
              ELSE NoRet
    /\ UNCHANGED observed

\* A call of create or save: the record is passed in.
called(c, r, at) ==
    /\ pc' = [pc EXCEPT ![c] = at]
    /\ rec' = [rec EXCEPT ![c] = r]
    /\ given' = [given EXCEPT ![c] = IF observed THEN r.id ELSE -1]
    /\ UNCHANGED tx
    /\ silent

\* The clock advances.
Tick ==
    /\ now < MaxTime
    /\ now' = now + 1
    /\ silent
    /\ UNCHANGED <<table, pc, rec, tx, given>>

\* ------------------------------------------------------ delete_expired
delete_expired(c) ==
    /\ pc[c] = "idle"
    /\ \/ /\ \A r \in table : less_than_now(r) => ~locked(r)
          /\ table' = {r \in table : ~less_than_now(r)}
          /\ returns(c, "delete_expired", now, Ok(Unit))
       \/ /\ UNCHANGED table
          /\ returns(c, "delete_expired", now, Err(Database(Fault)))
    /\ UNCHANGED now

\* --------------------------------------------------------------- create
create_start(c) ==
    /\ pc[c] = "idle"
    /\ \/ \E r \in Records(c) : called(c, r, "create_query")
       \/ returns(c, "create", NoRec, Err(Database(Fault)))
    /\ UNCHANGED <<table, now>>

\* A create that goes on to insert under an id its query found taken.
create_query_no_retry(c) ==
    /\ pc[c] = "create_query"
    /\ \/ /\ pc' = [pc EXCEPT ![c] = "create_insert"]
          /\ silent
          /\ UNCHANGED <<rec, given, tx>>
       \/ returns(c, "create", rec[c], Err(Database(Fault)))
    /\ UNCHANGED <<table, now>>

\* A create whose generator gives back the id that collided.
create_query_same_id(c) ==
    /\ pc[c] = "create_query"
    /\ \/ /\ query_by_id(to_string(rec[c].id)) = {}
          /\ pc' = [pc EXCEPT ![c] = "create_insert"]
          /\ silent
          /\ UNCHANGED <<rec, given, tx>>
       \/ /\ query_by_id(to_string(rec[c].id)) # {}
          /\ rec' = [rec EXCEPT ![c].id = rec[c].id]
          /\ silent
          /\ UNCHANGED <<pc, given, tx>>
       \/ returns(c, "create", rec[c], Err(Database(Fault)))
    /\ UNCHANGED <<table, now>>

\* A create whose existence check, like load's query, sees live rows only.
create_query_live_only(c) ==
    /\ pc[c] = "create_query"
    /\ LET found == {r \in query_by_id(to_string(rec[c].id)) : greater_than_now(r)}
       IN \/ /\ found = {}
             /\ pc' = [pc EXCEPT ![c] = "create_insert"]
             /\ silent
             /\ UNCHANGED <<rec, given, tx>>
          \/ /\ found # {}
             /\ \E fresh \in Ids : rec' = [rec EXCEPT ![c].id = fresh]
             /\ silent
             /\ UNCHANGED <<pc, given, tx>>
          \/ returns(c, "create", rec[c], Err(Database(Fault)))
    /\ UNCHANGED <<table, now>>

create_query(c) ==
    /\ pc[c] = "create_query"
    /\ \/ /\ query_by_id(to_string(rec[c].id)) = {}
          /\ pc' = [pc EXCEPT ![c] = "create_insert"]
          /\ silent
          /\ UNCHANGED <<rec, given, tx>>
       \/ /\ query_by_id(to_string(rec[c].id)) # {}
          /\ \E fresh \in Ids : rec' = [rec EXCEPT ![c].id = fresh]
          /\ silent
          /\ UNCHANGED <<pc, given, tx>>
       \/ returns(c, "create", rec[c], Err(Database(Fault)))
    /\ UNCHANGED <<table, now>>

\* A create whose insert runs on the connection, outside the transaction.
create_insert_on_db(c) ==
    /\ pc[c] = "create_insert"
    /\ LET row == get_insert_patch(to_string(rec[c].id), rec[c].expiry_date,
                                   Json(rec[c].data))
       IN \/ /\ ~insert_waits(c, row.id)
             /\ ~unique_violation(row.id)
             /\ table' = table \cup {row}
             /\ pc' = [pc EXCEPT ![c] = "create_commit"]
             /\ silent
             /\ UNCHANGED <<rec, given, tx>>
          \/ /\ ~insert_waits(c, row.id)
             /\ unique_violation(row.id)
             /\ UNCHANGED table
             /\ returns(c, "create", rec[c], Err(Database(Duplicate)))
          \/ /\ UNCHANGED table
             /\ returns(c, "create", rec[c], Err(Database(Fault)))
    /\ UNCHANGED now

create_insert(c) ==
    /\ pc[c] = "create_insert"
    /\ LET row == get_insert_patch(to_string(rec[c].id), rec[c].expiry_date,
                                   Json(rec[c].data))
       IN \/ /\ ~insert_waits(c, row.id)
             /\ ~unique_violation(row.id)
             /\ tx' = [tx EXCEPT ![c] = [kind |-> "insert", row |-> row]]
             /\ pc' = [pc EXCEPT ![c] = "create_commit"]
             /\ silent
             /\ UNCHANGED <<rec, given>>
          \/ /\ ~insert_waits(c, row.id)
             /\ unique_violation(row.id)
             /\ returns(c, "create", rec[c], Err(Database(Duplicate)))
          \/ returns(c, "create", rec[c], Err(Database(Fault)))
    /\ UNCHANGED <<table, now>>

create_commit(c) ==
    /\ pc[c] = "create_commit"
    /\ \/ /\ table' = committed(tx[c])
          /\ returns(c, "create", rec[c], Ok(Unit))
       \/ /\ UNCHANGED table
          /\ returns(c, "create", rec[c], Err(Database(Fault)))
    /\ UNCHANGED now

\* ----------------------------------------------------------------- save
save_start(c) ==
    /\ pc[c] = "idle"
    /\ \/ \E r \in Records(c) : called(c, r, "save_query")
       \/ returns(c, "save", NoRec, Err(Database(Fault)))
    /\ UNCHANGED <<table, now>>

\* A save that never updates: it inserts whatever its query found.
save_query_insert_only(c) ==
    /\ pc[c] = "save_query"
    /\ \/ /\ pc' = [pc EXCEPT ![c] = "save_insert"]
          /\ silent
          /\ UNCHANGED <<rec, given, tx>>
       \/ returns(c, "save", rec[c], Err(Database(Fault)))
    /\ UNCHANGED <<table, now>>

save_query(c) ==
    /\ pc[c] = "save_query"
    /\ \/ /\ query_by_id(to_string(rec[c].id)) # {}
          /\ pc' = [pc EXCEPT ![c] = "save_update"]
          /\ silent
          /\ UNCHANGED <<rec, given, tx>>
       \/ /\ query_by_id(to_string(rec[c].id)) = {}
          /\ pc' = [pc EXCEPT ![c] = "save_insert"]
          /\ silent
          /\ UNCHANGED <<rec, given, tx>>
       \/ returns(c, "save", rec[c], Err(Database(Fault)))
    /\ UNCHANGED <<table, now>>

\* A save whose update runs on the connection, outside the transaction.
save_update_on_db(c) ==
    /\ pc[c] = "save_update"
    /\ LET rows == query_by_id(to_string(rec[c].id))
       IN \/ /\ \A r \in rows : ~locked(r)
             /\ table' = (table \ rows) \cup
                    {update_set(r, rec[c].expiry_date, Json(rec[c].data)) : r \in rows}
             /\ pc' = [pc EXCEPT ![c] = "save_commit"]
             /\ silent
             /\ UNCHANGED <<rec, given, tx>>
          \/ /\ UNCHANGED table
             /\ returns(c, "save", rec[c], Err(Database(Fault)))
    /\ UNCHANGED now

\* A save whose update has no condition: it rewrites every row of the table.
save_update_all_rows(c) ==
    /\ pc[c] = "save_update"
    /\ LET rows == table
       IN \/ /\ \A r \in rows : ~locked(r)
             /\ tx' = [tx EXCEPT ![c] =
                          [kind |-> "update", rows |-> rows,
                           expires_at |-> rec[c].expiry_date,
                           data |-> Json(rec[c].data)]]
             /\ pc' = [pc EXCEPT ![c] = "save_commit"]
             /\ silent
             /\ UNCHANGED <<rec, given>>
          \/ returns(c, "save", rec[c], Err(Database(Fault)))
    /\ UNCHANGED <<table, now>>

save_update(c) ==
    /\ pc[c] = "save_update"
    /\ LET rows == query_by_id(to_string(rec[c].id))
       IN \/ /\ \A r \in rows : ~locked(r)
             /\ tx' = [tx EXCEPT ![c] =
                          [kind |-> "update", rows |-> rows,
                           expires_at |-> rec[c].expiry_date,
                           data |-> Json(rec[c].data)]]
             /\ pc' = [pc EXCEPT ![c] = "save_commit"]
             /\ silent
             /\ UNCHANGED <<rec, given>>
          \/ returns(c, "save", rec[c], Err(Database(Fault)))
    /\ UNCHANGED <<table, now>>

\* A save whose inserted row expires at the time of the call.
save_insert_expiring_now(c) ==
    /\ pc[c] = "save_insert"
    /\ LET row == get_insert_patch(to_string(rec[c].id), now, Json(rec[c].data))
       IN \/ /\ ~insert_waits(c, row.id)
             /\ ~unique_violation(row.id)
             /\ tx' = [tx EXCEPT ![c] = [kind |-> "insert", row |-> row]]
             /\ pc' = [pc EXCEPT ![c] = "save_commit"]
             /\ silent
             /\ UNCHANGED <<rec, given>>
          \/ /\ ~insert_waits(c, row.id)
             /\ unique_violation(row.id)
             /\ returns(c, "save", rec[c], Err(Database(Duplicate)))
          \/ returns(c, "save", rec[c], Err(Database(Fault)))
    /\ UNCHANGED <<table, now>>

save_insert(c) ==
    /\ pc[c] = "save_insert"
    /\ LET row == get_insert_patch(to_string(rec[c].id), rec[c].expiry_date,
                                   Json(rec[c].data))
       IN \/ /\ ~insert_waits(c, row.id)
             /\ ~unique_violation(row.id)
             /\ tx' = [tx EXCEPT ![c] = [kind |-> "insert", row |-> row]]
             /\ pc' = [pc EXCEPT ![c] = "save_commit"]
             /\ silent
             /\ UNCHANGED <<rec, given>>
          \/ /\ ~insert_waits(c, row.id)
             /\ unique_violation(row.id)
             /\ returns(c, "save", rec[c], Err(Database(Duplicate)))
          \/ returns(c, "save", rec[c], Err(Database(Fault)))
    /\ UNCHANGED <<table, now>>

save_commit(c) ==
    /\ pc[c] = "save_commit"
    /\ \/ /\ table' = committed(tx[c])
          /\ returns(c, "save", rec[c], Ok(Unit))
       \/ /\ UNCHANGED table
          /\ returns(c, "save", rec[c], Err(Database(Fault)))
    /\ UNCHANGED now

\* A load that removes the expired rows of the id it is asked for.
load_purging(c) ==
    /\ pc[c] = "idle"
    /\ \/ \E session_id \in Ids :
             LET session == {r \in query_by_id(to_string(session_id)) :
                                greater_than_now(r)}
             IN /\ table' = table \ (query_by_id(to_string(session_id)) \ session)
                /\ \/ /\ session = {}
                      /\ returns(c, "load", session_id, Ok(None))
                   \/ \E s \in session :
                         LET d == get_session_data(s)
                             id == from_str(d[1])
                         IN IF id.ok
                            THEN returns(c, "load", session_id,
                                         Ok(Some(Record(id.id, d[2], into_inner(d[3])))))
                            ELSE returns(c, "load", session_id,
                                         Err(DecodingFailed(id.err)))
       \/ /\ UNCHANGED table
          /\ \E session_id \in Ids :
                returns(c, "load", session_id, Err(Database(Fault)))
    /\ UNCHANGED now

\* ----------------------------------------------------------------- load
load(c) ==
    /\ pc[c] = "idle"
    /\ \/ \E session_id \in Ids :
             LET session == {r \in query_by_id(to_string(session_id)) :
                                greater_than_now(r)}
             IN \/ /\ session = {}
                   /\ returns(c, "load", session_id, Ok(None))
                \/ \E s \in session :
                      LET d == get_session_data(s)
                          id == from_str(d[1])
                      IN IF id.ok
                         THEN returns(c, "load", session_id,
                                      Ok(Some(Record(id.id, d[2], into_inner(d[3])))))
                         ELSE returns(c, "load", session_id, Err(DecodingFailed(id.err)))
       \/ \E session_id \in Ids : returns(c, "load", session_id, Err(Database(Fault)))
    /\ UNCHANGED <<table, now>>

\* --------------------------------------------------------------- delete
delete(c) ==
    /\ pc[c] = "idle"
    /\ \E session_id \in Ids :
          LET rows == {r \in table : delete_condition(r, to_string(session_id))}
          IN \/ /\ \A r \in rows : ~locked(r)
                /\ table' = table \ rows
                /\ returns(c, "delete", session_id, Ok(Unit))
             \/ /\ UNCHANGED table
                /\ returns(c, "delete", session_id, Err(Database(Fault)))
    /\ UNCHANGED now

\* ----------------------------------------------------- specifications
\* Clients call the store concurrently: any client may take its next step.
Next ==
    \/ Tick
    \/ \E c \in Clients : delete_expired(c)
    \/ \E c \in Clients : create_start(c)
    \/ \E c \in Clients : create_query(c)
    \/ \E c \in Clients : create_insert(c)
    \/ \E c \in Clients : create_commit(c)
    \/ \E c \in Clients : save_start(c)
    \/ \E c \in Clients : save_query(c)
    \/ \E c \in Clients : save_update(c)
    \/ \E c \in Clients : save_insert(c)
    \/ \E c \in Clients : save_commit(c)
    \/ \E c \in Clients : load(c)
    \/ \E c \in Clients : delete(c)

Spec == Init /\ [][Next]_vars

\* Calls that do not overlap, their returns recorded: a client steps only
\* while no other client's call is open.
alone(c) == \A o \in Clients \ {c} : pc[o] = "idle"

SeqInit == Idle /\ table = {} /\ observed = TRUE

SeqNext ==
    \/ Tick
    \/ \E c \in Clients : alone(c) /\ delete_expired(c)
    \/ \E c \in Clients : alone(c) /\ create_start(c)
    \/ \E c \in Clients : alone(c) /\ create_query(c)
    \/ \E c \in Clients : alone(c) /\ create_insert(c)
    \/ \E c \in Clients : alone(c) /\ create_commit(c)
    \/ \E c \in Clients : alone(c) /\ save_start(c)
    \/ \E c \in Clients : alone(c) /\ save_query(c)
    \/ \E c \in Clients : alone(c) /\ save_update(c)
    \/ \E c \in Clients : alone(c) /\ save_insert(c)
    \/ \E c \in Clients : alone(c) /\ save_commit(c)
    \/ \E c \in Clients : alone(c) /\ load(c)
    \/ \E c \in Clients : alone(c) /\ delete(c)

SeqSpec == SeqInit /\ [][SeqNext]_vars

\* =================================================================
\* The table of S is an ordinary table of the application's database: the
\* store's queries run against whatever rows it holds. Here it starts
\* with one row written by another party whose id has a trailing blank:
\* equals matches it, from_str cannot decode it.
Blank == " "

ForeignInit ==
    /\ Idle
    /\ observed = TRUE
    /\ \E i \in Ids, e \in Times, d \in Clients :
          table = {get_insert_patch([b64 |-> i, tail |-> Blank], e, Json(d))}

ForeignSpec == ForeignInit /\ [][SeqNext]_vars

\* Two clients that call only save, concurrently, their returns recorded;
\* the table starts empty or with one row an earlier save left.
SavesInit ==
    /\ Idle
    /\ observed = TRUE
    /\ \/ table = {}
       \/ \E i \in Ids, e \in Times, d \in Clients :
             table = {get_insert_patch(to_string(i), e, Json(d))}

SavesNext ==
    \/ Tick
    \/ \E c \in Clients : save_start(c)
    \/ \E c \in Clients : save_query(c)
    \/ \E c \in Clients : save_update(c)
    \/ \E c \in Clients : save_insert(c)
    \/ \E c \in Clients : save_commit(c)

SavesSpec == SavesInit /\ [][SavesNext]_vars

\* Two clients, each calling save, load and delete on an id of its own,
\* concurrently, their returns recorded; the table starts with any rows,
\* at most one for an id.
IdOf(c) == IF c = "c1" THEN 0 ELSE 1

PairInit ==
    /\ Idle
    /\ observed = TRUE
    /\ \E T \in SUBSET {get_insert_patch(to_string(i), e, Json(d)) :
                          i \in Ids, e \in Times, d \in Clients} :
          /\ \A r1, r2 \in T : equals(r1.id, r2.id) => r1 = r2
          /\ table = T

PairNext ==
    \/ Tick
    \/ \E c \in Clients :
          save_start(c) /\ (pc'[c] = "save_query" => rec'[c].id = IdOf(c))
    \/ \E c \in Clients : save_query(c)
    \/ \E c \in Clients : save_update(c)
    \/ \E c \in Clients : save_insert(c)
    \/ \E c \in Clients : save_commit(c)
    \/ \E c \in Clients : load(c) /\ ret'.arg = IdOf(c)
    \/ \E c \in Clients : delete(c) /\ ret'.arg = IdOf(c)

PairSpec == PairInit /\ [][PairNext]_vars

\* Calls that do not overlap, with a create that is making progress: the
\* runtime keeps polling the awaited statements, the database answers, and
\* the id generator, drawing at random, eventually yields an id that has
\* no row whenever there is one.
create_progress(c) ==
    /\ alone(c)
    /\ \/ /\ create_query(c)
          /\ pc'[c] # "idle"
          /\ query_by_id(to_string(rec'[c].id)) = {}
       \/ create_insert(c) /\ pc'[c] = "create_commit"
       \/ create_commit(c)

SeqFairSpec == SeqSpec /\ \A c \in Clients : WF_vars(create_progress(c))

\* The claims

RowsIn(t, id) == {r \in t : r.id = to_string(id)}
RowsOf(id) == RowsIn(table, id)

\* The latest step returned an error because the connection failed.
Faulted(r) == ~r.res.ok /\ r.res.err.msg[2] = Fault

\* C2: unless the backend fails, load(id) at time now returns Some(record)
\* exactly when a row with that id exists whose expiry is strictly greater
\* than now, and None otherwise (no such row, or expiry at or before now).
C2_ExpiryVisibility ==
    (ret.op = "load" /\ ~Faulted(ret)) =>
        /\ ret.res.ok
        /\ ret.res.val.some <=> (\E r \in RowsOf(ret.arg) : r.expires_at > now)

\* A load has returned Some for a live row.
C2_Witness ==
    /\ ret.op = "load"
    /\ ret.res.ok
    /\ ret.res.val.some
    /\ \E r \in RowsOf(ret.arg) : r.expires_at > now

\* C3: after a successful create or save the table holds exactly one row
\* under the record's final id, with the record's expiry and data; and a
\* load that finds a live row under an id returns that id with exactly the
\* row's expiry and data, so that with no write in between it returns the
\* record last written.
C3_RoundTrip ==
    /\ (ret.op \in {"create", "save"} /\ ret.res.ok) =>
          /\ RowsOf(ret.arg.id) # {}
          /\ \A r \in RowsOf(ret.arg.id) :
                /\ r.expires_at = ret.arg.expiry_date
                /\ r.data.json = ret.arg.data
    /\ (ret.op = "load" /\ ~Faulted(ret)) =>
          \A r \in RowsOf(ret.arg) :
             r.expires_at > now =>
                /\ ret.res.ok
                /\ ret.res.val.some
                /\ ret.res.val.rec.id = ret.arg
                /\ ret.res.val.rec.expiry_date = r.expires_at
                /\ ret.res.val.rec.data = r.data.json

\* A save has returned Ok over a row another client wrote, which now holds
\* the saved record.
C3_Witness ==
    /\ ret.op = "save"
    /\ ret.res.ok
    /\ \E r \in RowsOf(ret.arg.id) : r.data.json = ret.arg.data
    /\ \E r \in table : r.data.json # ret.arg.data

\* Table t holds record r: under r's id just r's expiry and data.
StoredIn(t, r) ==
    /\ RowsIn(t, r.id) # {}
    /\ \A x \in RowsIn(t, r.id) :
          x.expires_at = r.expiry_date /\ x.data.json = r.data
Stored(r) == StoredIn(table, r)

\* C4: a successful save leaves the table holding the record; and a save of
\* a record the table already holds (as after a first save of it) does not
\* fail, takes the update path and commits a table identical to the one it
\* found: no second row, no changed row.
C4_SaveIdempotent ==
    /\ [](ret.op = "save" /\ ret.res.ok => Stored(ret.arg))
    /\ [][\A c \in Clients :
            (pc[c] \in {"save_query", "save_update", "save_insert", "save_commit"}
             /\ Stored(rec[c]) /\ ret'.op = "save" /\ ~Faulted(ret'))
            => /\ ret'.res.ok
               /\ tx[c].kind = "update"
               /\ table' = table]_vars

\* A save of a record the table already holds is about to commit its update.
C4_Witness ==
    \E c \in Clients :
        /\ pc[c] = "save_commit"
        /\ tx[c].kind = "update"
        /\ Stored(rec[c])

\* C5: a delete_expired that the backend carries out at time now leaves
\* exactly the rows whose expiry is at or after now, each unchanged: every
\* row with expiry < now is gone and no other row is touched.
C5_PurgeCorrect ==
    [][(ret'.op = "delete_expired" /\ ~Faulted(ret'))
       => /\ ret'.res.ok
          /\ table' = {r \in table : r.expires_at >= now}]_vars

\* A purge has returned and a row expiring at that very instant is kept.
C5_Witness ==
    /\ ret.op = "delete_expired"
    /\ ret.res.ok
    /\ \E r \in table : r.expires_at = now
    /\ now > 0

\* C6: unless the backend fails, delete(id) returns Ok whether or not a row
\* with the id exists and whatever its expiry; it removes the rows with
\* that id and no other, so that a delete of an id that has no row (as a
\* second delete finds it) leaves the table unchanged.
C6_DeleteIdempotent ==
    [][(ret'.op = "delete" /\ ~Faulted(ret'))
       => /\ ret'.res.ok
          /\ RowsIn(table', ret'.arg) = {}
          /\ table' = table \ RowsOf(ret'.arg)
          /\ (RowsOf(ret'.arg) = {} => table' = table)]_vars

\* A delete has returned Ok, its id has no row and an expired row of another
\* id is still there.
C6_Witness ==
    /\ ret.op = "delete"
    /\ ret.res.ok
    /\ RowsOf(ret.arg) = {}
    /\ \E r \in table : r.expires_at < now

\* C7: a create fails only when the backend does.  When the id passed in
\* has a row, the create that succeeds has replaced the record's id by a
\* generated id that has no row, and when it has none the id is unchanged;
\* the commit adds the record's row under the final id and changes no row
\* that was there.
C7_CollisionRetry ==
    /\ [](ret.op = "create" /\ ~ret.res.ok => Faulted(ret))
    /\ [][\A c \in Clients :
            (pc[c] = "create_commit" /\ ret'.op = "create" /\ ret'.res.ok)
            => /\ RowsOf(given[c]) # {} => rec[c].id # given[c]
               /\ RowsOf(given[c]) = {} => rec[c].id = given[c]
               /\ RowsOf(rec[c].id) = {}
               /\ table \subseteq table'
               /\ StoredIn(table', rec[c])
               /\ Cardinality(table') = Cardinality(table) + 1]_vars

\* A create has returned Ok under an id other than the one passed in, whose
\* row is still in the table.
C7_Witness ==
    /\ ret.op = "create"
    /\ ret.res.ok
    /\ ret.arg.id # ret.given
    /\ RowsOf(ret.given) # {}
    /\ RowsOf(ret.arg.id) # {}

\* C9: a write of a transaction is in nobody else's view before the commit
\* (while an insert is pending the table holds no row under its id, while
\* an update is pending the table still holds the rows as they were), and
\* every row that appears or changes in the table does so at the commit of a
\* create or save and then carries both the expiry and the data of that
\* call's record: never the one without the other.
C9_NoPartialUpdate ==
    /\ [](\A c \in Clients :
            /\ tx[c].kind = "insert" =>
                  \A r \in table : r.id # tx[c].row.id
            /\ tx[c].kind = "update" => tx[c].rows \subseteq table)
    /\ [][\A r \in table' \ table :
            \E c \in Clients :
               /\ pc[c] \in {"create_commit", "save_commit"}
               /\ pc'[c] = "idle"
               /\ r.id = to_string(rec[c].id)
               /\ r.expires_at = rec[c].expiry_date
               /\ r.data.json = rec[c].data]_vars

\* A save holds an uncommitted update that changes both the expiry and the
\* data of a row, the other client is free to load it, and the table still
\* shows the row as it was.
C9_Witness ==
    \E c, o \in Clients :
        /\ c # o
        /\ pc[o] = "idle"
        /\ tx[c].kind = "update"
        /\ \E r \in tx[c].rows :
              /\ r \in table
              /\ r.expires_at # tx[c].expires_at
              /\ r.data # tx[c].data

\* C10: a create or save that fails returns a backend error and ends there
\* (no retry, the transaction dropped uncommitted), and the table is as it
\* was when the call began: the failing step leaves it unchanged, and so
\* does every step of a call that has not returned.
C10_FailureAtomic ==
    /\ [][(ret'.op \in {"create", "save"} /\ ~ret'.res.ok)
          => /\ ret'.res.err.kind = "Backend"
             /\ table' = table
             /\ \A c \in Clients : pc'[c] = "idle" /\ tx'[c] = NoTx]_vars
    /\ [][ret' = NoRet => table' = table]_vars

\* A create has failed after its record's id was replaced: the id passed in
\* still has its row and the regenerated id has none.
C10_Witness ==
    /\ ret.op = "create"
    /\ ~ret.res.ok
    /\ ret.given # -1
    /\ ret.arg.id # ret.given
    /\ RowsOf(ret.given) # {}
    /\ RowsOf(ret.arg.id) = {}

\* C8: the error load returns when the id of a live row cannot be decoded
\* is of another kind than the error it returns when the query fails.
C8_DecodeErrorDistinct ==
    (/\ ret.op = "load"
     /\ ~ret.res.ok
     /\ ret.res.err.msg = Display(DecodingFailed(from_str(
            [b64 |-> ret.arg, tail |-> Blank]).err)))
    => ret.res.err.kind # Err(Database(Fault)).err.kind

\* The row that holds record r.
RowFor(r) == get_insert_patch(to_string(r.id), r.expiry_date, Json(r.data))

\* C11: from a table T with no row under the record's id, save(record)
\* ends in T with the record's row added; create(record), finding the id
\* free, ends in the same table, and a save(record) that finds the table so
\* leaves it as it is.  Either way the final table is T plus exactly one
\* row for the id, holding the record's expiry and data.
C11_SaveConvergence ==
    [][\A c \in Clients :
         /\ (pc[c] = "save_commit" /\ ret'.op = "save" /\ ret'.res.ok)
            => /\ RowsOf(rec[c].id) = {} =>
                     table' = table \cup {RowFor(rec[c])}
               /\ RowFor(rec[c]) \in table => table' = table
               /\ RowsIn(table', rec[c].id) = {RowFor(rec[c])}
         /\ (pc[c] = "create_commit" /\ ret'.op = "create" /\ ret'.res.ok
             /\ rec[c].id = given[c])
            => /\ RowsOf(rec[c].id) = {}
               /\ table' = table \cup {RowFor(rec[c])}]_vars

\* A save is about to commit the insert of a record whose id has no row,
\* into a table that holds another row.
C11_Witness ==
    \E c \in Clients :
        /\ pc[c] = "save_commit"
        /\ tx[c].kind = "insert"
        /\ RowsOf(rec[c].id) = {}
        /\ table # {}

\* C12: while the calls in progress are saves, the table changes only at
\* the commit of a save that returns Ok, and after every such commit it
\* holds under the record's id exactly one row, with the expiry and data of
\* that save.  So when two concurrent saves of one id both commit, the row
\* is that of the save that committed last, whether a row existed before
\* or not.
C12_LastCommitterWins ==
    /\ [][(ret'.op = "save" /\ ret'.res.ok)
          => RowsIn(table', ret'.arg.id) = {RowFor(ret'.arg)}]_vars
    /\ [][table' # table => (ret'.op = "save" /\ ret'.res.ok)]_vars

\* A save has committed while another save of the same id, with another
\* expiry and other data, has passed its existence check and not yet
\* written.
C12_Witness ==
    /\ ret.op = "save"
    /\ ret.res.ok
    /\ \E o \in Clients :
          /\ pc[o] = "save_update"
          /\ rec[o].id = ret.arg.id
          /\ rec[o].expiry_date # ret.arg.expiry_date
          /\ rec[o].data # ret.arg.data

\* What load(id) finds at this instant: a row with the id that has not expired.
Visible(id) == \E r \in query_by_id(to_string(id)) : greater_than_now(r)

\* C13: a load the backend answers returns Some exactly for a visible id,
\* and across any step that leaves the table as it is (time passing among
\* them) an id visible after the step was visible before it.  So a row left
\* alone that load returns at t was returned at every earlier time, and one
\* that load no longer returns is not returned at any later time.
C13_VisibilityMonotonic ==
    /\ [][(ret'.op = "load" /\ ~Faulted(ret'))
          => ret'.res.ok /\ (ret'.res.val.some <=> Visible(ret'.arg))]_vars
    /\ [][table' = table => \A i \in Ids : Visible(i)' => Visible(i)]_vars

\* A load has returned None for a row that expires at this very instant and
\* was live before it.
C13_Witness ==
    /\ ret.op = "load"
    /\ ret.res.ok
    /\ ~ret.res.val.some
    /\ now > 0
    /\ \E r \in RowsOf(ret.arg) : r.expires_at = now

\* C14: when the two clients work on different ids, however their calls
\* interleave, each call returns what it returns when run alone on the rows
\* of its id (save: Ok and the record's row; load: the live row or None;
\* delete: Ok and no row), and the rows of an id change only by the commit
\* of a save or by a delete of that very id.  Results and final table are
\* therefore those of running the calls one after the other, in either
\* order.
C14_DifferentIdsIndependent ==
    /\ [][ret'.op = "save" =>
            \/ Faulted(ret')
            \/ /\ ret'.res.ok
               /\ RowsIn(table', ret'.arg.id) = {RowFor(ret'.arg)}]_vars
    /\ [][(ret'.op = "load" /\ ~Faulted(ret')) =>
            /\ ret'.res.ok
            /\ ret'.res.val.some <=> Visible(ret'.arg)
            /\ ret'.res.val.some =>
                  RowFor(ret'.res.val.rec) \in RowsOf(ret'.arg)]_vars
    /\ [][(ret'.op = "delete" /\ ~Faulted(ret')) =>
            ret'.res.ok /\ RowsIn(table', ret'.arg) = {}]_vars
    /\ [][\A i \in Ids :
            RowsIn(table', i) # RowsIn(table, i) =>
               \/ ret'.op = "delete" /\ ret'.arg = i
               \/ ret'.op = "save" /\ ret'.res.ok /\ ret'.arg.id = i]_vars

\* One client's delete has removed the row of its id while the other
\* client's save holds an uncommitted update of the row of its own id.
C14_Witness ==
    /\ ret.op = "delete"
    /\ ret.res.ok
    /\ \E c \in Clients :
          /\ IdOf(c) # ret.arg
          /\ pc[c] = "save_commit"
          /\ tx[c].kind = "update"
          /\ tx[c].rows # {}
          /\ tx[c].rows \subseteq table

\* The ids of the rows of table t.
IdsIn(t) == {r.id : r \in t}

\* C15: no step of a save changes the record's id, and the record returned
\* carries the id passed in; no step of a save adds, removes or changes a
\* row stored under another id; and the commit of a successful save leaves
\* as ids of the table those it found together with the record's id.
C15_SaveFrame ==
    [][\A c \in Clients :
         (pc[c] \in {"save_query", "save_update", "save_insert", "save_commit"})
         => /\ pc'[c] # "idle" => rec'[c].id = rec[c].id
            /\ pc'[c] = "idle" =>
                  /\ ret'.op = "save"
                  /\ ret'.arg.id = given[c]
                  /\ ret'.arg.id = rec[c].id
            /\ \A r \in table \cup table' :
                  r.id # to_string(rec[c].id) => (r \in table /\ r \in table')
            /\ (pc'[c] = "idle" /\ ret'.res.ok) =>
                  IdsIn(table') = IdsIn(table) \cup {to_string(rec[c].id)}]_vars

\* A save has returned Ok and the table holds, under another id, a row with
\* another expiry and other data than the saved record's.
C15_Witness ==
    /\ ret.op = "save"
    /\ ret.res.ok
    /\ Stored(ret.arg)
    /\ \E r \in table :
          /\ r.id # to_string(ret.arg.id)
          /\ r.expires_at # ret.arg.expiry_date
          /\ r.data.json # ret.arg.data

\* C16: a create that is at its existence check while some id has no row
\* eventually returns; and while every id has a row, a step of a create at
\* its existence check that is not a backend failure leaves it at the
\* existence check with a regenerated id: it neither returns nor reports an
\* error, for as long as no row is removed.
C16_CreateTermination ==
    /\ \A c \in Clients :
          (pc[c] = "create_query" /\ \E i \in Ids : RowsOf(i) = {})
             ~> (pc[c] = "idle")
    /\ [][\A c \in Clients :
            (/\ pc[c] = "create_query"
             /\ \A i \in Ids : RowsOf(i) # {}
             /\ ~(ret'.op = "create" /\ Faulted(ret')))
            => /\ pc'[c] = "create_query"
               /\ ret' = NoRet
               /\ table' = table]_vars

\* A create has regenerated its record's id and every id has a row.
C16_Witness ==
    \E c \in Clients :
        /\ pc[c] = "create_query"
        /\ rec[c].id # given[c]
        /\ \A i \in Ids : RowsOf(i) # {}

\* C17: at every instant no row is both one load returns (expiry > now)
\* and one delete_expired removes (expiry < now), and a row expiring at
\* this very instant is neither; a purge the backend carries out removes
\* no row load would return and keeps every row expiring at that instant,
\* and a row load has just returned is not one a purge would remove.
C17_LoadPurgeAgree ==
    /\ [](\A r \in table :
            /\ ~(greater_than_now(r) /\ less_than_now(r))
            /\ r.expires_at = now =>
                  (~greater_than_now(r) /\ ~less_than_now(r)))
    /\ [][(ret'.op = "delete_expired" /\ ret'.res.ok)
          => /\ \A r \in table \ table' : ~greater_than_now(r)
             /\ \A r \in table : r.expires_at = now => r \in table']_vars
    /\ [](ret.op = "load" /\ ret.res.ok /\ ret.res.val.some
          => /\ RowFor(ret.res.val.rec) \in table
             /\ ~less_than_now(RowFor(ret.res.val.rec)))

\* A purge has returned at a time when all of several rows expire: it kept
\* them, and load returns none of them.
C17_Witness ==
    /\ ret.op = "delete_expired"
    /\ ret.res.ok
    /\ now > 0
    /\ Cardinality(table) > 1
    /\ \A r \in table : r.expires_at = now
    /\ \A i \in Ids : ~Visible(i)

\* C18: a create whose record's id has a row that has expired does not go
\* on to insert under that id: it regenerates the id (or fails with the
\* backend); and the commit of a successful create adds its row under an
\* id no row of the table has, live or expired, and leaves every row that
\* was there, the expired ones among them, as it was.
C18_CreateIgnoresExpiry ==
    /\ [][\A c \in Clients :
            (/\ pc[c] = "create_query"
             /\ \E r \in RowsOf(rec[c].id) : ~greater_than_now(r))
            => /\ pc'[c] # "create_insert"
               /\ table' = table
               /\ pc'[c] = "idle" => (ret'.op = "create" /\ Faulted(ret'))]_vars
    /\ [][\A c \in Clients :
            (pc[c] = "create_commit" /\ ret'.op = "create" /\ ret'.res.ok)
            => /\ to_string(rec[c].id) \notin IdsIn(table)
               /\ table \subseteq table'
               /\ table' \ table = {RowFor(rec[c])}]_vars

\* A create has returned Ok under a regenerated id, and the expired row of
\* the id passed in is still in the table.
C18_Witness ==
    /\ ret.op = "create"
    /\ ret.res.ok
    /\ ret.arg.id # ret.given
    /\ RowFor(ret.arg) \in table
    /\ \E r \in RowsOf(ret.given) : r.expires_at < now

\* C19: a save whose id has no row (never written, deleted or purged) or has
\* an expired row fails only when the backend does; its commit leaves under
\* the id exactly the record's row, so a record with an expiry in the
\* future is live; and a load the backend answers returns Some for every
\* id that has a live row, whatever happened to the id before.
C19_NotSticky ==
    /\ [][\A c \in Clients :
            (/\ pc[c] \in {"save_query", "save_update", "save_insert", "save_commit"}
             /\ \A r \in RowsOf(rec[c].id) : ~greater_than_now(r)
             /\ ret'.op = "save"
             /\ ~Faulted(ret'))
            => /\ ret'.res.ok
               /\ RowsIn(table', rec[c].id) = {RowFor(rec[c])}
               /\ rec[c].expiry_date > now =>
                     \E r \in RowsIn(table', rec[c].id) : r.expires_at > now]_vars
    /\ [][(ret'.op = "load" /\ ~Faulted(ret') /\ Visible(ret'.arg))
          => /\ ret'.res.ok
             /\ ret'.res.val.some
             /\ RowFor(ret'.res.val.rec) \in RowsOf(ret'.arg)]_vars

\* A save with an expiry in the future is about to commit its update of an
\* expired row that was not purged.
C19_Witness ==
    \E c \in Clients :
        /\ pc[c] = "save_commit"
        /\ tx[c].kind = "update"
        /\ rec[c].expiry_date > now
        /\ \E r \in tx[c].rows : r \in table /\ ~greater_than_now(r)

\* C20: a load, whatever it returns (Some, None, a decoding error, a
\* backend error), leaves the table exactly as it was and opens no
\* transaction: an expired row it did not return is still there, and so is
\* the row whose id it could not decode.
C20_LoadReadOnly ==
    [][ret'.op = "load" => (table' = table /\ tx' = tx /\ pc' = pc)]_vars

\* A load has returned None for an id whose expired row is in the table,
\* next to a row whose id does not decode.
C20_Witness ==
    /\ ret.op = "load"
    /\ ret.res.ok
    /\ ~ret.res.val.some
    /\ \E r \in table : equals(r.id, to_string(ret.arg)) /\ r.expires_at < now
    /\ \E r \in table : ~from_str(r.id).ok

====
